---- MODULE Spec2Model ----
(***************************************************************************)
(* Model of the autocompleteList directive controller                      *)
(* (src/src/autocompleteList.js): the search text, the attached ngModel    *)
(* controller and its $modelValue (the selected items), the candidate      *)
(* items and the item-text function, with the three controller methods     *)
(* selectedItemChange, matchingItems and deselectItem.                     *)
(***************************************************************************)
EXTENDS Integers, Sequences, FiniteSets, TLC

VARIABLES searchText, modelCtrl, modelValue, items, itemText,
          lastCall, result, threw

vars == <<searchText, modelCtrl, modelValue, items, itemText,
          lastCall, result, threw>>

(***************************************************************************)
(* Bounds of the model.                                                    *)
(***************************************************************************)
\* longest candidate list
MaxItems == 2
\* longest selection selectedItemChange is followed up to
MaxSelected == 3
\* longest selection the application starts with
MaxInitSelected == 1

(***************************************************************************)
(* JavaScript values.  Strings are sequences of characters.  An item is    *)
(* named by its identity: an object item o1, a string item s1, the number  *)
(* 0 (n0) and an array item a1 whose single element is the object o1.      *)
(***************************************************************************)
Null == "null"

Items == {"o1", "s1", "n0", "a1"}

\* The query strings matchingItems is called with, and the texts typed into
\* the search box.
Queries == {<<>>, <<"a">>, <<"B">>, <<"a", "b">>}

TypedTexts == {<<>>, <<"B">>}

\* ToBoolean of an item: null and the number 0 are falsy.
Truthy(item) == item \notin {Null, "n0"}

\* Array.isArray of an item.
IsArrayItem(item) == item = "a1"

\* The elements of an array item.
ArrayElems(item) == IF item = "a1" THEN <<"o1">> ELSE <<>>

\* typeof item === "string", and the characters of a string item.
IsStringItem(item) == item = "s1"

StringChars(item) == IF item = "s1" THEN <<"A", "b">> ELSE <<>>

Range(s) == {s[k] : k \in 1..Len(s)}

SeqsUpTo(S, n) == UNION {[1..k -> S] : k \in 0..n}

(***************************************************************************)
(* Library functions of the language, as the code uses them.               *)
(***************************************************************************)
LowerChar(c) == CASE c = "A" -> "a" [] c = "B" -> "b" [] OTHER -> c

\* String.prototype.toLowerCase
toLowerCase(s) == [k \in 1..Len(s) |-> LowerChar(s[k])]

\* needle occurs in hay at the zero-based position k
OccursAt(hay, needle, k) ==
  /\ k + Len(needle) <= Len(hay)
  /\ \A j \in 1..Len(needle) : hay[k + j] = needle[j]

RECURSIVE StringIndexOfFrom(_, _, _)
StringIndexOfFrom(hay, needle, k) ==
  IF k + Len(needle) > Len(hay) THEN -1
  ELSE IF OccursAt(hay, needle, k) THEN k
  ELSE StringIndexOfFrom(hay, needle, k + 1)

\* String.prototype.indexOf: the zero-based first position of needle, or -1
StringIndexOf(hay, needle) == StringIndexOfFrom(hay, needle, 0)

RECURSIVE ArrayIndexOfFrom(_, _, _)
ArrayIndexOfFrom(arr, item, k) ==
  IF k >= Len(arr) THEN -1
  ELSE IF arr[k + 1] = item THEN k
  ELSE ArrayIndexOfFrom(arr, item, k + 1)

\* Array.prototype.indexOf: strict equality, zero-based, or -1
ArrayIndexOf(arr, item) == ArrayIndexOfFrom(arr, item, 0)

\* Array.prototype.concat(item): an array argument is spread into its
\* elements, any other value is appended as one element.
concat(arr, item) ==
  IF IsArrayItem(item) THEN arr \o ArrayElems(item) ELSE Append(arr, item)

\* Array.prototype.splice(i, 1) at the zero-based position i
splice(arr, i) == SubSeq(arr, 1, i) \o SubSeq(arr, i + 2, Len(arr))

(***************************************************************************)
(* Values handed to and returned by the item-text function: a string, or   *)
(* the locals object {item: item} the controller calls it with.            *)
(***************************************************************************)
JsString(s) == [type |-> "string", chars |-> s, item |-> Null]

Locals(item) == [type |-> "object", chars |-> <<>>, item |-> item]

\* Two item-text expressions an embedding application may supply; each maps
\* every item to a string (AppText).  "name" gives a string item its own
\* characters and two distinct items (o1, s1) the same text.
TextFns == {"name", "label"}

AppText(fn, item) ==
  IF fn = "name"
  THEN CASE item = "o1" -> <<"A", "b">>
         [] item = "s1" -> <<"A", "b">>
         [] item = "n0" -> <<"0">>
         [] OTHER -> <<"b">>
  ELSE CASE item = "o1" -> <<"B">>
         [] item = "s1" -> <<"b", "A">>
         [] item = "n0" -> <<"0", "a">>
         [] OTHER -> <<>>

\* ctrl.itemText(locals): the fallback function(item) { return item; }
\* returns its argument; a supplied expression is evaluated on locals.item.
callItemText(locals) ==
  IF itemText = "default" THEN locals
  ELSE JsString(AppText(itemText, locals.item))

ArrayValue(arr) == [type |-> "array", arr |-> arr]

UndefinedValue == [type |-> "undefined", arr |-> <<>>]

(***************************************************************************)
(* The controller.  A call either returns or raises a TypeError (threw).   *)
(***************************************************************************)
\* ctrl.selectedItems(): reads $modelValue of ctrl.modelCtrl
selectedItems == [threw |-> modelCtrl = Null, value |-> modelValue]

\* A method call on the selected items raises when there is no model
\* controller yet or when its $modelValue is undefined.
NoSelectedArray == selectedItems.threw \/ selectedItems.value.type # "array"

\* itemMatchesString testing indexOf(string) > 0 in place of !== -1
itemMatchesString_Positive(item, string) ==
  LET text == callItemText(Locals(item))
  IN  IF text.type # "string"
      THEN [threw |-> TRUE, value |-> FALSE]
      ELSE [threw |-> FALSE,
            value |-> StringIndexOf(toLowerCase(text.chars), string) > 0]

itemMatchesString(item, string) ==
  LET text == callItemText(Locals(item))
  IN  IF text.type # "string"
      THEN [threw |-> TRUE, value |-> FALSE]
      ELSE [threw |-> FALSE,
            value |-> StringIndexOf(toLowerCase(text.chars), string) # -1]

\* The body of ctrl.items.forEach in matchingItems, from the k-th item on.
RECURSIVE forEachItem(_, _, _)
forEachItem(k, string, acc) ==
  IF k > Len(items) THEN [threw |-> FALSE, value |-> acc]
  ELSE IF NoSelectedArray THEN [threw |-> TRUE, value |-> <<>>]
  ELSE IF ArrayIndexOf(selectedItems.value.arr, items[k]) # -1
       THEN forEachItem(k + 1, string, acc)
  ELSE LET m == itemMatchesString(items[k], string)
       IN  IF m.threw THEN [threw |-> TRUE, value |-> <<>>]
           ELSE forEachItem(k + 1, string,
                            IF m.value THEN Append(acc, items[k]) ELSE acc)

\* matchingItems without lower-casing the search string
matchingItems_KeepCase(string) == forEachItem(1, string, <<>>)

matchingItems(string) == forEachItem(1, toLowerCase(string), <<>>)

\* selectedItemChange without the test of item
selectedItemChange_Unguarded(item) ==
  IF NoSelectedArray
  THEN [threw |-> TRUE, modelValue |-> modelValue, searchText |-> searchText]
  ELSE [threw |-> FALSE,
        modelValue |-> ArrayValue(concat(selectedItems.value.arr, item)),
        searchText |-> <<>>]

\* The state selectedItemChange(item) leaves: $setViewValue(value) makes
\* value the model value.
selectedItemChange(item) ==
  IF Truthy(item)
  THEN IF NoSelectedArray
       THEN [threw |-> TRUE, modelValue |-> modelValue,
             searchText |-> searchText]
       ELSE [threw |-> FALSE,
             modelValue |-> ArrayValue(concat(selectedItems.value.arr, item)),
             searchText |-> <<>>]
  ELSE [threw |-> FALSE, modelValue |-> modelValue, searchText |-> searchText]

\* deselectItem removing every entry identical to item
deselectFrom_All(arr, item, i) == SelectSeq(arr, LAMBDA x : x # item)

\* The loop of deselectItem from the zero-based position i.
RECURSIVE deselectFrom(_, _, _)
deselectFrom(arr, item, i) ==
  IF i >= Len(arr) THEN arr
  ELSE IF arr[i + 1] = item THEN splice(arr, i)
  ELSE deselectFrom(arr, item, i + 1)

deselectItem(item) ==
  IF NoSelectedArray
  THEN [threw |-> TRUE, modelValue |-> modelValue]
  ELSE [threw |-> FALSE,
        modelValue |-> ArrayValue(deselectFrom(selectedItems.value.arr, item, 0))]

(***************************************************************************)
(* State after construction (ctrlFunc): empty search text, no model        *)
(* controller.  The candidate items, the item-text expression and the      *)
(* model value are the embedding application's.                            *)
(***************************************************************************)
NoCall == [op |-> "none", item |-> Null, query |-> <<>>, before |-> <<>>]

Init ==
  /\ searchText = <<>>
  /\ modelCtrl = Null
  /\ items \in SeqsUpTo(Items, MaxItems)
  /\ itemText \in {"default"} \cup TextFns
  /\ modelValue \in {UndefinedValue}
                    \cup {ArrayValue(arr) : arr \in SeqsUpTo(Items, MaxInitSelected)}
  /\ lastCall = NoCall
  /\ result = <<>>
  /\ threw = FALSE

\* linkFunc attaches the ngModel controller.
Link ==
  /\ modelCtrl = Null
  /\ modelCtrl' = "ngModel"
  /\ lastCall' = NoCall
  /\ result' = <<>>
  /\ threw' = FALSE
  /\ UNCHANGED <<searchText, modelValue, items, itemText>>

\* The user types into the autocomplete (md-search-text=aclCtrl.searchText).
TypeText(q) ==
  /\ searchText' = q
  /\ lastCall' = NoCall
  /\ result' = <<>>
  /\ threw' = FALSE
  /\ UNCHANGED <<modelCtrl, modelValue, items, itemText>>

MatchingItems(q) ==
  LET r == matchingItems(q)
  IN  /\ result' = r.value
      /\ threw' = r.threw
      /\ lastCall' = [op |-> "matchingItems", item |-> Null, query |-> q,
                      before |-> <<>>]
      /\ UNCHANGED <<searchText, modelCtrl, modelValue, items, itemText>>

SelectedItemChange(item) ==
  LET r == selectedItemChange(item)
  IN  /\ Len(r.modelValue.arr) <= MaxSelected
      /\ modelValue' = r.modelValue
      /\ searchText' = r.searchText
      /\ threw' = r.threw
      /\ result' = <<>>
      /\ lastCall' = [op |-> "selectedItemChange", item |-> item,
                      query |-> <<>>, before |-> modelValue.arr]
      /\ UNCHANGED <<modelCtrl, items, itemText>>

DeselectItem(item) ==
  LET r == deselectItem(item)
  IN  /\ modelValue' = r.modelValue
      /\ threw' = r.threw
      /\ result' = <<>>
      /\ lastCall' = [op |-> "deselectItem", item |-> item, query |-> <<>>,
                      before |-> <<>>]
      /\ UNCHANGED <<searchText, modelCtrl, items, itemText>>

Next ==
  \/ Link
  \/ \E q \in TypedTexts : TypeText(q)
  \/ \E q \in Queries : MatchingItems(q)
  \/ \E item \in Items \cup {Null} : SelectedItemChange(item)
  \/ \E item \in Items \cup {Null} : DeselectItem(item)

Spec == Init /\ [][Next]_vars

(***************************************************************************)
(* The autocomplete as the template wires it: matchingItems is called with *)
(* the search text, and the item handed to selectedItemChange is one of    *)
(* the items matchingItems returned for it, or null when the control is    *)
(* cleared.                                                                *)
(***************************************************************************)
NoDuplicates(arr) ==
  \A i, j \in 1..Len(arr) : i # j => arr[i] # arr[j]

InitUI == Init /\ NoDuplicates(modelValue.arr)

ShowMatches == MatchingItems(searchText)

ChooseMatch ==
  \E item \in Range(matchingItems(searchText).value) : SelectedItemChange(item)

ClearChoice == SelectedItemChange(Null)

NextUI ==
  \/ Link
  \/ \E q \in TypedTexts : TypeText(q)
  \/ ShowMatches
  \/ ChooseMatch
  \/ ClearChoice
  \/ \E item \in Items \cup {Null} : DeselectItem(item)

SpecUI == InitUI /\ [][NextUI]_vars

(***************************************************************************)
(* Vocabulary of the properties.                                           *)
(***************************************************************************)
Linked == modelCtrl # Null

HasArray == modelValue.type = "array"

TextSupplied == itemText \in TextFns

SelectedItems == modelValue.arr

\* needle is a substring of hay
Contains(hay, needle) ==
  \E k \in 0..Len(hay) :
    /\ k + Len(needle) <= Len(hay)
    /\ SubSeq(hay, k + 1, k + Len(needle)) = needle

Unselected(c) == c \notin Range(SelectedItems)

TextMatches(c, q) ==
  Contains(toLowerCase(AppText(itemText, c)), toLowerCase(q))

\* The candidates that are unselected and whose text contains q, in the
\* order of the candidates.
Wanted(q) ==
  SelectSeq(items, LAMBDA c : Unselected(c) /\ TextMatches(c, q))

\* arr without its first entry equal to item
RemoveFirst(arr, item) ==
  IF item \notin Range(arr) THEN arr
  ELSE LET p == CHOOSE p \in 1..Len(arr) :
                  arr[p] = item /\ \A j \in 1..(p - 1) : arr[j] # item
       IN  [k \in 1..(Len(arr) - 1) |-> IF k < p THEN arr[k] ELSE arr[k + 1]]

(***************************************************************************)
(* Properties.                                                             *)
(***************************************************************************)
Configured == Linked /\ HasArray /\ TextSupplied

\* No selected item is among the items matchingItems returns, for any query.
SelectedNeverMatch ==
  \A q \in Queries :
    \A c \in Range(SelectedItems) : c \notin Range(matchingItems(q).value)

\* C1: no item of SelectedItems appears in matchingItems(q) for any query q,
\* and after selectedItemChange(item) has returned for a non-null item,
\* matchingItems(q) does not contain item for any q.
C1_ChosenNeverMatches ==
  /\ SelectedNeverMatch
  /\ (lastCall.op = "selectedItemChange" /\ lastCall.item # Null /\ ~threw)
       => \A q \in Queries :
            lastCall.item \notin Range(matchingItems(q).value)

\* C2: with a model array and a supplied text function, matchingItems(q)
\* returns exactly the candidates that are not selected and whose text,
\* lower-cased, contains the lower-cased q, in the order of the candidates.
C2_MatchingItemsExact ==
  (lastCall.op = "matchingItems" /\ Configured)
    => (~threw /\ result = Wanted(lastCall.query))

C2_Witness ==
  /\ lastCall.op = "matchingItems"
  /\ Configured
  /\ lastCall.query = <<"B">>
  /\ result # <<>>
  /\ \E c \in Range(items) : Unselected(c) /\ c \notin Range(result)

\* C3: when every selected item is a candidate, matchingItems of the empty
\* query returns the candidates that are not selected, in their order.
C3_EmptyQueryIsDifference ==
  (/\ lastCall.op = "matchingItems"
   /\ lastCall.query = <<>>
   /\ Configured
   /\ Range(SelectedItems) \subseteq Range(items))
    => (~threw /\ result = SelectSeq(items, Unselected))

C3_Witness ==
  /\ lastCall.op = "matchingItems"
  /\ lastCall.query = <<>>
  /\ Configured
  /\ SelectedItems # <<>>
  /\ Range(SelectedItems) \subseteq Range(items)
  /\ result # <<>>
  /\ result = SelectSeq(items, Unselected)

\* C4: selectedItemChange(item) for an item that is not null leaves
\* SelectedItems equal to its previous contents followed by item as one new
\* last element, and SearchText empty.
C4_ChosenItemAppended ==
  (/\ lastCall.op = "selectedItemChange"
   /\ lastCall.item # Null
   /\ Linked /\ HasArray)
    => (/\ ~threw
        /\ SelectedItems = Append(lastCall.before, lastCall.item)
        /\ searchText = <<>>)

\* C5: deselectItem(item) removes the first entry of SelectedItems identical
\* to item and nothing else, leaves SelectedItems alone when there is none,
\* and changes neither SearchText nor CandidateItems.
C5_DeselectRemovesFirst ==
  [][(lastCall'.op = "deselectItem" /\ Linked /\ HasArray)
       => (/\ ~threw'
           /\ modelValue' =
                ArrayValue(RemoveFirst(SelectedItems, lastCall'.item))
           /\ searchText' = searchText
           /\ items' = items)]_vars

\* a deselect that removed the first of two entries of the item
C5_Witness ==
  /\ lastCall.op = "deselectItem"
  /\ Linked /\ HasArray /\ ~threw
  /\ lastCall.item \in Range(SelectedItems)
  /\ searchText # <<>>

\* C6: selectedItemChange(null) leaves SelectedItems and SearchText as they
\* were, and returns.
C6_NullChoiceIsNoOp ==
  [][(lastCall'.op = "selectedItemChange" /\ lastCall'.item = Null)
       => (modelValue' = modelValue /\ searchText' = searchText /\ ~threw')]_vars

C6_Witness ==
  /\ lastCall.op = "selectedItemChange"
  /\ lastCall.item = Null
  /\ Linked /\ HasArray
  /\ SelectedItems # <<>>
  /\ searchText # <<>>

\* The unselected candidates whose own characters contain q.
WantedOwnText(q) ==
  SelectSeq(items, LAMBDA c :
    Unselected(c) /\ Contains(toLowerCase(StringChars(c)), toLowerCase(q)))

\* C7: with no text function supplied and string candidates, matchingItems(q)
\* returns without error the unselected candidates whose own value,
\* lower-cased, contains the lower-cased q.
C7_DefaultTextIsIdentity ==
  (/\ lastCall.op = "matchingItems"
   /\ itemText = "default"
   /\ Linked /\ HasArray
   /\ \A c \in Range(items) : IsStringItem(c))
    => (~threw /\ result = WantedOwnText(lastCall.query))

\* C8: no call of matchingItems, selectedItemChange or deselectItem raises an
\* error, in any state from construction on.
C8_NoCallRaises == ~threw

\* C9: when every chosen item comes from matchingItems on the current state
\* and the selection starts without duplicates, SelectedItems never holds an
\* item twice.
C9_NoDuplicateSelected == HasArray => NoDuplicates(SelectedItems)

\* C10: selectedItemChange(i) for a non-null i that is not selected, directly
\* followed by deselectItem(i), leaves SelectedItems as it was before the two
\* calls.
C10_ChooseThenDeselect ==
  [][(/\ lastCall.op = "selectedItemChange"
      /\ lastCall.item # Null
      /\ ~threw
      /\ Linked /\ HasArray
      /\ lastCall.item \notin Range(lastCall.before)
      /\ lastCall'.op = "deselectItem"
      /\ lastCall'.item = lastCall.item)
       => modelValue' = ArrayValue(lastCall.before)]_vars

====
